---- MODULE Spec2Model ----
(***************************************************************************)
(* A model of the utility library of the repository: the number-theory     *)
(* helpers gcd and lcm, the permutation generator getPermutations, and     *)
(* the interval helper mergeRanges.  Every function is synchronous; one    *)
(* behaviour of the model is one call, by a caller that picked the         *)
(* arguments, followed through the function's code.                        *)
(***************************************************************************)
EXTENDS Integers, Sequences, FiniteSets, TLC

(***************************************************************************)
(* Bounds of the model.                                                    *)
(***************************************************************************)
\* gcd and lcm are called with the integers -MaxVal..MaxVal and with 2^31
MaxVal == 6
\* shift is a double: shift++ no longer changes it once it holds 2^53.  The
\* model's counter stops changing at MaxShift instead.
MaxShift == 34
\* getPermutations is called with arrays of at most MaxLen distinct elements
MaxLen == 4
\* The threshold of getPermutations is 8, and an array of nine elements has
\* 362880 orderings, more than can be enumerated.  To reach the fallback the
\* model also runs the code with the threshold lowered to LoweredLimit.
LoweredLimit == 2
\* mergeRanges is called with at most MaxRanges pairs [start, end] of
\* integers in 0..MaxCoord
MaxRanges == 3
MaxCoord == 3
\* transpose is called with matrices of at most MaxRows rows and MaxCols
\* columns; the elements of matrices and arrays are in 0..MaxElem
MaxRows == 2
MaxCols == 2
MaxElem == 1
\* unique is also run with its threshold lowered from SetLimit to
\* LoweredSetLimit, which brings the Map path within reach of short arrays
LoweredSetLimit == 2
\* a day defines at most MaxCases test cases for a part
MaxCases == 2

(***************************************************************************)
(* Constants of the program.                                               *)
(***************************************************************************)
\* if (array.length > 8) return getPermutationsLarger(array)
HeapLimit == 8
\* if (arr.length < 1000) return [...new Set(arr)]
SetLimit == 1000

(***************************************************************************)
(* JavaScript numbers.  The bitwise operators of gcd work on the 32-bit    *)
(* two's complement image of a double, so integers from 2^31 on behave     *)
(* differently.  A number n is the pair <<h, l>> with n = h * 2^16 + l and *)
(* 0 <= l < 2^16, which holds every integer the calls below produce.       *)
(***************************************************************************)
Base == 2^16
Half == 2^15

Norm(h, l) == <<h + (l \div Base), l % Base>>
Num(n) == Norm(0, n)
Zero == Num(0)
Big == <<Half, 0>>                                   \* 2^31

IsNeg(n) == n[1] < 0
Neg(n) == Norm(-n[1], -n[2])
MathAbs(n) == IF IsNeg(n) THEN Neg(n) ELSE n
Sub(m, n) == Norm(m[1] - n[1], m[2] - n[2])
Gt(m, n) == m[1] > n[1] \/ (m[1] = n[1] /\ m[2] > n[2])

\* ToInt32 of ECMAScript: the value modulo 2^32, in -2^31 .. 2^31 - 1
ToInt32(n) == <<((n[1] + Half) % Base) - Half, n[2]>>
\* (m | n) & 1
OrBit0(m, n) == IF m[2] % 2 = 1 \/ n[2] % 2 = 1 THEN 1 ELSE 0
\* n & 1
Bit0(n) == n[2] % 2
\* n >> 1: the arithmetic shift of the 32-bit image
Sar1(n) ==
    LET t == ToInt32(n)
    IN  <<t[1] \div 2, (t[2] + (t[1] % 2) * Base) \div 2>>
\* n << s: the 32-bit image shifted left, the count taken modulo 32
Shl(n, s) ==
    LET k == s % 32
        t == ToInt32(n)
        low == t[2] * 2^(IF k < 16 THEN k ELSE k - 16)
    IN  IF k < 16
        THEN ToInt32(<<((t[1] % Base) * 2^k + (low \div Base)) % Base, low % Base>>)
        ELSE ToInt32(<<low % Base, 0>>)
\* m * n, exact while the product is a safe integer
Mul(m, n) ==
    LET p == MathAbs(m)
        q == MathAbs(n)
        r == Norm(p[1] * q[1] * Base + p[1] * q[2] + p[2] * q[1], p[2] * q[2])
    IN  IF IsNeg(m) = IsNeg(n) THEN r ELSE Neg(r)
\* The integer below 2^31 in magnitude that a number is
Val(n) == n[1] * Base + n[2]
\* What is not an integer is a tuple of another length
NaN == <<"NaN">>
PosInfinity == <<"Infinity">>
IsInt(v) == Len(v) = 2
\* m / n; a quotient that is no integer is kept as the fraction it is
Div(m, n) ==
    IF n = Zero THEN (IF m = Zero THEN NaN ELSE PosInfinity)
    ELSE IF m = Zero THEN Zero
    ELSE IF Val(m) % (IF Val(n) < 0 THEN -Val(n) ELSE Val(n)) = 0
         THEN (IF Val(n) < 0 THEN Num(-(Val(m) \div (-Val(n))))
                             ELSE Num(Val(m) \div Val(n)))
    ELSE <<"fraction", m, n>>

(***************************************************************************)
(* The state.                                                              *)
(***************************************************************************)
VARIABLES
    fn,        \* the function the caller calls
    pc,        \* the position in its code
    x, y,      \* the caller's two numbers
    a, b,      \* gcd's parameters, reassigned by its code
    shift,     \* gcd's local
    ret,       \* the value the last call of gcd returned
    rets,      \* the values gcd returned to the caller so far
    prod,      \* lcm: Math.abs(a * b), evaluated before gcd is called
    lcmRet,    \* the value lcm returned
    array,     \* getPermutations: the caller's array
    original,  \* what the caller's array held when it was passed
    heapLimit, \* the length above which getPermutations falls back
    perms,     \* the list getPermutations returned
    heaps,     \* mergeRanges: the [start, end] objects by identity, as they
               \* were before the first call and after each call
    ranges,    \* the caller's array: the identities of its intervals
    merged,    \* the array the first call of mergeRanges returned
    again,     \* the array mergeRanges returned for merged
    matrix,    \* transpose: the caller's matrix
    items,     \* chunks, unique: the caller's array arr
    size,      \* windows, chunks: the size passed
    choose,    \* combinations: r, the number of elements to choose
    setLimit,  \* the length from which unique leaves the Set path
    returned,  \* what the call returned
    thrown,    \* the exception the call ended with, "" when it returned
    twice,     \* transpose: what transpose(result) returned
    tests,     \* test.ts: the test cases the day defines for its two parts
    logged,    \* the messages written so far
    invoked,   \* how many times the solution was invoked
    passed     \* what runPart1Tests or runPart2Tests returned

numVars == <<x, y, a, b, shift, ret, rets, prod, lcmRet>>
permVars == <<array, original, heapLimit, perms>>
rangeVars == <<heaps, ranges, merged, again>>
utilVars ==
    <<matrix, items, size, choose, setLimit, returned, thrown, twice>>
testVars == <<tests, logged, invoked, passed>>
vars == <<fn, pc, numVars, permVars, rangeVars, utilVars, testVars>>
\* what a function leaves alone: the variables of the other functions
notNumVars == <<permVars, rangeVars, utilVars, testVars>>
notPermVars == <<numVars, rangeVars, utilVars, testVars>>
notRangeVars == <<numVars, permVars, utilVars, testVars>>
notUtilVars == <<numVars, permVars, rangeVars, testVars>>

\* no value yet
None == <<>>

Numbers == {Num(n) : n \in -MaxVal..MaxVal} \cup {Big}

\* the locals of a call that has not started
NoGcdFrame == a = Zero /\ b = Zero /\ shift = 0 /\ ret = None
\* the variables of the functions the caller does not call
NoNumbers ==
    /\ x = Zero /\ y = Zero /\ NoGcdFrame
    /\ rets = <<>> /\ prod = None /\ lcmRet = None
NoPermutations ==
    array = <<>> /\ original = <<>> /\ heapLimit = HeapLimit /\ perms = <<>>
NoRanges ==
    heaps = <<>> /\ ranges = <<>> /\ merged = <<>> /\ again = <<>>
NoCall == returned = <<>> /\ thrown = "" /\ twice = <<>>
NoTests == tests = <<>> /\ logged = <<>> /\ invoked = 0 /\ passed = FALSE
NoUtils ==
    /\ matrix = <<>> /\ items = <<>> /\ size = 0 /\ choose = 0
    /\ setLimit = SetLimit /\ NoCall

(***************************************************************************)
(* The caller: gcd(x, y) followed by gcd(y, x), or lcm(x, y).              *)
(***************************************************************************)
InitGcd ==
    /\ fn = "gcd"
    /\ pc = "start"
    /\ x \in Numbers /\ y \in Numbers
    /\ NoGcdFrame
    /\ rets = <<>> /\ prod = None /\ lcmRet = None
    /\ NoPermutations /\ NoRanges /\ NoUtils /\ NoTests

\* lcm's product has to be a safe integer: 2^31 * 2^31 is none
InitLcm ==
    /\ fn = "lcm"
    /\ pc = "start"
    /\ x \in Numbers /\ y \in Numbers
    /\ ~(x = Big /\ y = Big)
    /\ NoGcdFrame
    /\ rets = <<>> /\ prod = None /\ lcmRet = None
    /\ NoPermutations /\ NoRanges /\ NoUtils /\ NoTests


\* the caller's first call: gcd(x, y)
CallGcd ==
    /\ fn = "gcd" /\ pc = "start"
    /\ a' = x /\ b' = y
    /\ pc' = "gcd_abs"
    /\ UNCHANGED <<fn, x, y, shift, ret, rets, prod, lcmRet, notNumVars>>

\* the caller's second call, with the arguments exchanged: gcd(y, x)
CallGcdSwapped ==
    /\ fn = "gcd" /\ pc = "gcd_returned" /\ Len(rets) = 0
    /\ rets' = Append(rets, ret)
    /\ a' = y /\ b' = x
    /\ pc' = "gcd_abs"
    /\ UNCHANGED <<fn, x, y, shift, ret, prod, lcmRet, notNumVars>>

CallerDone ==
    /\ fn = "gcd" /\ pc = "gcd_returned" /\ Len(rets) = 1
    /\ rets' = Append(rets, ret)
    /\ pc' = "done"
    /\ UNCHANGED <<fn, x, y, a, b, shift, ret, prod, lcmRet, notNumVars>>

(***************************************************************************)
(* gcd                                                                     *)
(***************************************************************************)
\* a = Math.abs(a); b = Math.abs(b); let shift = 0
GcdAbs ==
    /\ pc = "gcd_abs"
    /\ a' = MathAbs(a) /\ b' = MathAbs(b)
    /\ shift' = 0
    /\ pc' = "gcd_common"
    /\ UNCHANGED <<fn, x, y, ret, rets, prod, lcmRet, notNumVars>>

\* while (((a | b) & 1) === 0) { a >>= 1; b >>= 1; shift++ }
GcdCommon ==
    /\ pc = "gcd_common"
    /\ IF OrBit0(a, b) = 0
       THEN /\ a' = Sar1(a) /\ b' = Sar1(b)
            /\ shift' = IF shift < MaxShift THEN shift + 1 ELSE shift
            /\ pc' = pc
       ELSE /\ pc' = "gcd_strip_a"
            /\ UNCHANGED <<a, b, shift>>
    /\ UNCHANGED <<fn, x, y, ret, rets, prod, lcmRet, notNumVars>>

\* while ((a & 1) === 0) a >>= 1
GcdStripA ==
    /\ pc = "gcd_strip_a"
    /\ IF Bit0(a) = 0
       THEN a' = Sar1(a) /\ pc' = pc
       ELSE a' = a /\ pc' = "gcd_while_b"
    /\ UNCHANGED <<fn, x, y, b, shift, ret, rets, prod, lcmRet, notNumVars>>

\* while (b) { ... }
GcdWhileB ==
    /\ pc = "gcd_while_b"
    /\ pc' = IF b # Zero THEN "gcd_strip_b" ELSE "gcd_return"
    /\ UNCHANGED <<fn, x, y, a, b, shift, ret, rets, prod, lcmRet, notNumVars>>

\* while ((b & 1) === 0) b >>= 1;  if (a > b) [a, b] = [b, a];  b -= a
GcdStripB ==
    /\ pc = "gcd_strip_b"
    /\ IF Bit0(b) = 0
       THEN a' = a /\ b' = Sar1(b) /\ pc' = pc
       ELSE /\ a' = IF Gt(a, b) THEN b ELSE a
            /\ b' = IF Gt(a, b) THEN Sub(a, b) ELSE Sub(b, a)
            /\ pc' = "gcd_while_b"
    /\ UNCHANGED <<fn, x, y, shift, ret, rets, prod, lcmRet, notNumVars>>

\* return a << shift
GcdReturn ==
    /\ pc = "gcd_return"
    /\ ret' = Shl(a, shift)
    /\ pc' = "gcd_returned"
    /\ UNCHANGED <<fn, x, y, a, b, shift, rets, prod, lcmRet, notNumVars>>

(***************************************************************************)
(* lcm                                                                     *)
(***************************************************************************)
\* Math.abs(a * b) is evaluated, then gcd(a, b) is called
LcmCall ==
    /\ fn = "lcm" /\ pc = "start"
    /\ prod' = MathAbs(Mul(x, y))
    /\ a' = x /\ b' = y
    /\ pc' = "gcd_abs"
    /\ UNCHANGED <<fn, x, y, shift, ret, rets, lcmRet, notNumVars>>

\* return Math.abs(a * b) / gcd(a, b)
LcmReturn ==
    /\ fn = "lcm" /\ pc = "gcd_returned"
    /\ lcmRet' = Div(prod, ret)
    /\ pc' = "done"
    /\ UNCHANGED <<fn, x, y, a, b, shift, ret, rets, prod, notNumVars>>

(***************************************************************************)
(* getPermutations                                                         *)
(***************************************************************************)
Range(s) == {s[j] : j \in 1..Len(s)}
Distinct(s) == Cardinality(Range(s)) = Len(s)
Arrays == {s \in UNION {[1..n -> 1..MaxLen] : n \in 0..MaxLen} : Distinct(s)}

\* Heap's algorithm without its parity rule
SwapIndexAlwaysFirst(i, c) == 0

\* const k = i % 2 && c[i]: the index the element at i is exchanged with
SwapIndex(i, c) == IF i % 2 # 0 THEN c[i + 1] ELSE 0

\* const temp = array[i]; array[i] = array[k]; array[k] = temp
Swap(arr, i, k) == [arr EXCEPT ![i + 1] = arr[k + 1], ![k + 1] = arr[i + 1]]

\* while (i < len) { ... }: Heap's algorithm, on the array it was given.  It
\* ends with the list of copies pushed and with the array as the swaps left it.
RECURSIVE HeapLoop(_, _, _, _)
HeapLoop(arr, c, i, result) ==
    IF i < Len(arr)
    THEN IF c[i + 1] < i
         THEN LET swapped == Swap(arr, i, SwapIndex(i, c))
              IN  HeapLoop(swapped, [c EXCEPT ![i + 1] = @ + 1], 0,
                           Append(result, swapped))
         ELSE HeapLoop(arr, [c EXCEPT ![i + 1] = 0], i + 1, result)
    ELSE [result |-> result, array |-> arr]

\* the second slice taken one element late
RemainingOffByOne(arr, i) ==
    SubSeq(arr, 1, i) \o SubSeq(arr, i + 3, Len(arr))

\* [...array.slice(0, i), ...array.slice(i + 1)]
Remaining(arr, i) ==
    SubSeq(arr, 1, i) \o SubSeq(arr, i + 2, Len(arr))

\* for (const permutation of permutations) result.push([current, ...permutation])
RECURSIVE PushAll(_, _, _)
PushAll(result, current, permutations) ==
    IF permutations = <<>> THEN result
    ELSE PushAll(Append(result, <<current>> \o Head(permutations)), current,
                 Tail(permutations))

RECURSIVE getPermutations(_, _)
RECURSIVE LargerLoop(_, _, _, _)

\* for (let i = 0; i < array.length; i++) { ... } of getPermutationsLarger
LargerLoop(arr, limit, i, result) ==
    IF i < Len(arr)
    THEN LargerLoop(arr, limit, i + 1,
                    PushAll(result, arr[i + 1],
                            getPermutations(Remaining(arr, i), limit).result))
    ELSE result

getPermutationsLarger(arr, limit) ==
    IF Len(arr) <= 1 THEN <<arr>> ELSE LargerLoop(arr, limit, 0, <<>>)

\* getPermutations(array), with the threshold limit: the list it returns and
\* the array as the call leaves it
getPermutations(arr, limit) ==
    IF Len(arr) <= 1 THEN [result |-> <<arr>>, array |-> arr]
    ELSE IF Len(arr) > limit
         THEN [result |-> getPermutationsLarger(arr, limit), array |-> arr]
    ELSE HeapLoop(arr, [j \in 1..Len(arr) |-> 0], 0, <<arr>>)

InitPermutations ==
    /\ fn = "getPermutations"
    /\ pc = "start"
    /\ array \in Arrays
    /\ original = array
    /\ heapLimit \in {HeapLimit, LoweredLimit}
    /\ perms = <<>>
    /\ NoNumbers /\ NoRanges /\ NoUtils /\ NoTests

\* the caller's call: const perms = getPermutations(array)
CallGetPermutations ==
    /\ fn = "getPermutations" /\ pc = "start"
    /\ perms' = getPermutations(array, heapLimit).result
    /\ array' = getPermutations(array, heapLimit).array
    /\ pc' = "done"
    /\ UNCHANGED <<fn, original, heapLimit, notPermVars>>

(***************************************************************************)
(* mergeRanges.  An interval is an array object [start, end]; the arrays of *)
(* the code hold references, here identities, and a heap gives the object   *)
(* each identity stands for.                                                *)
(***************************************************************************)
Max(m, n) == IF m >= n THEN m ELSE n

\* [...ranges].sort(([a], [b]) => a - b): Array.prototype.sort is stable, so
\* an interval moves before the ones with a greater start only
RECURSIVE Insert(_, _, _)
Insert(heap, srt, id) ==
    IF srt = <<>> THEN <<id>>
    ELSE IF heap[srt[Len(srt)]][1] - heap[id][1] > 0
         THEN Append(Insert(heap, SubSeq(srt, 1, Len(srt) - 1), id), srt[Len(srt)])
    ELSE Append(srt, id)

RECURSIVE SortByStart(_, _)
SortByStart(heap, ids) ==
    IF ids = <<>> THEN <<>>
    ELSE Insert(heap, SortByStart(heap, SubSeq(ids, 1, Len(ids) - 1)), ids[Len(ids)])

\* overlapping intervals merged, adjacent ones not
AdjoinsOverlapOnly(start, lastEnd) == start <= lastEnd

\* if (start <= lastEnd + 1)
Adjoins(start, lastEnd) == start <= lastEnd + 1

\* the pushed interval one too long
NewRangeEndOff(start, end) == <<start, end + 1>>

\* [start, end]: the new array of merged.push([start, end])
NewRange(start, end) == <<start, end>>

\* the body of for (const [start, end] of sorted.slice(1)) { ... }, for the
\* interval id: the heap and merged after it
MergeStep(heap, mrg, id) ==
    LET start == heap[id][1]
        end == heap[id][2]
        last == mrg[Len(mrg)]
        lastEnd == heap[last][2]
    IN  IF Adjoins(start, lastEnd)
        THEN [heap |-> [heap EXCEPT ![last][2] = Max(lastEnd, end)],
              merged |-> mrg]
        ELSE [heap |-> Append(heap, NewRange(start, end)),
              merged |-> Append(mrg, Len(heap) + 1)]

RECURSIVE MergeLoop(_, _, _)
MergeLoop(heap, mrg, rest) ==
    IF rest = <<>> THEN [heap |-> heap, merged |-> mrg]
    ELSE LET step == MergeStep(heap, mrg, Head(rest))
         IN  MergeLoop(step.heap, step.merged, Tail(rest))

\* mergeRanges(ranges): the array it returns and the heap as the call leaves
\* it.  merged starts as [sorted[0]], the caller's own first interval.
mergeRanges(heap, ids) ==
    IF Len(ids) = 0 THEN [heap |-> heap, merged |-> <<>>]
    ELSE LET sorted == SortByStart(heap, ids)
         IN  MergeLoop(heap, <<sorted[1]>>, Tail(sorted))

\* [number, number]: the type does not ask for start <= end
Intervals == (0..MaxCoord) \X (0..MaxCoord)

InitRanges ==
    /\ fn = "mergeRanges"
    /\ pc = "start"
    /\ \E n \in 0..MaxRanges :
          /\ \E heap \in [1..n -> Intervals] : heaps = <<heap>>
          /\ ranges = [j \in 1..n |-> j]
    /\ merged = <<>> /\ again = <<>>
    /\ NoNumbers /\ NoPermutations /\ NoUtils /\ NoTests

\* the caller's call: const merged = mergeRanges(ranges)
CallMergeRanges ==
    /\ fn = "mergeRanges" /\ pc = "start"
    /\ LET r == mergeRanges(heaps[1], ranges)
       IN  heaps' = Append(heaps, r.heap) /\ merged' = r.merged
    /\ pc' = "merged"
    /\ UNCHANGED <<fn, ranges, again, notRangeVars>>

\* the caller's second call: mergeRanges(merged)
CallMergeRangesAgain ==
    /\ fn = "mergeRanges" /\ pc = "merged"
    /\ LET r == mergeRanges(heaps[2], merged)
       IN  heaps' = Append(heaps, r.heap) /\ again' = r.merged
    /\ pc' = "done"
    /\ UNCHANGED <<fn, ranges, merged, notRangeVars>>

\* the caller writes to an interval it was returned: merged[j][k] = -1
WriteReturned ==
    /\ fn = "mergeRanges" /\ pc = "merged"
    /\ \E j \in 1..Len(merged), k \in 1..2 :
          heaps' = Append(heaps, [heaps[2] EXCEPT ![merged[j]][k] = -1])
    /\ pc' = "written"
    /\ UNCHANGED <<fn, ranges, merged, again, notRangeVars>>

(***************************************************************************)
(* array.ts: transpose and windows.  A call either returns a value or ends *)
(* with an exception; an operator gives both as [thrown, value].           *)
(***************************************************************************)
Elems == 0..MaxElem
\* the arrays of elements, which may repeat
Lists == UNION {[1..n -> Elems] : n \in 0..MaxLen}
\* the rectangular matrices
Matrices ==
    UNION {[1..rows -> [1..cols -> Elems]] :
               rows \in 0..MaxRows, cols \in 0..MaxCols}

Returns(value) == [thrown |-> "", value |-> value]
Threw(error) == [thrown |-> error, value |-> <<>>]

\* matrix[0].map((_, colIndex) => matrix.map((row) => row[colIndex])):
\* matrix[0] of a matrix without rows is undefined, and undefined.map throws
transpose(m) ==
    IF Len(m) = 0
    THEN Threw("TypeError")
    ELSE Returns([colIndex \in 1..Len(m[1]) |->
                      [row \in 1..Len(m) |-> m[row][colIndex]]])

InitTranspose ==
    /\ fn = "transpose"
    /\ pc = "start"
    /\ matrix \in Matrices
    /\ items = <<>> /\ size = 0 /\ choose = 0 /\ setLimit = SetLimit /\ NoCall
    /\ NoNumbers /\ NoPermutations /\ NoRanges /\ NoTests

\* the caller's call: const result = transpose(matrix)
CallTranspose ==
    /\ fn = "transpose" /\ pc = "start"
    /\ LET call == transpose(matrix)
       IN  /\ returned' = call.value
           /\ thrown' = call.thrown
           /\ pc' = IF call.thrown = "" THEN "returned" ELSE "thrown"
    /\ UNCHANGED <<fn, matrix, items, size, choose, setLimit, twice, notUtilVars>>

\* the caller's second call: const twice = transpose(result)
CallTransposeAgain ==
    /\ fn = "transpose" /\ pc = "returned"
    /\ LET call == transpose(returned)
       IN  /\ twice' = call.value
           /\ thrown' = call.thrown
           /\ pc' = IF call.thrown = "" THEN "done" ELSE "thrown"
    /\ UNCHANGED <<fn, matrix, items, size, choose, setLimit, returned, notUtilVars>>

\* array.slice(from, to), from and to counted from 0
Slice(s, from, to) == SubSeq(s, from + 1, to)

\* for (let i = 0; i <= array.length - size; i++)
\*   result.push(array.slice(i, i + size))
RECURSIVE WindowsLoop(_, _, _, _)
WindowsLoop(s, n, i, res) ==
    IF i <= Len(s) - n
    THEN WindowsLoop(s, n, i + 1, Append(res, Slice(s, i, i + n)))
    ELSE res

windows(s, n) == IF n > Len(s) THEN <<>> ELSE WindowsLoop(s, n, 0, <<>>)

InitWindows ==
    /\ fn = "windows"
    /\ pc = "start"
    /\ array \in Lists
    /\ original = array /\ heapLimit = HeapLimit /\ perms = <<>>
    /\ size \in 0..MaxLen + 1
    /\ matrix = <<>> /\ items = <<>> /\ choose = 0 /\ setLimit = SetLimit /\ NoCall
    /\ NoNumbers /\ NoRanges /\ NoTests

\* the caller's call: const result = windows(array, size)
CallWindows ==
    /\ fn = "windows" /\ pc = "start"
    /\ returned' = windows(array, size)
    /\ pc' = "done"
    /\ UNCHANGED <<fn, matrix, items, size, choose, setLimit, thrown, twice,
                   notUtilVars>>

(***************************************************************************)
(* array.ts: chunks, unique and combinations.                              *)
(***************************************************************************)
Min(m, n) == IF m <= n THEN m ELSE n

\* a loop that steps one element too far
NextChunkSkips(i, n) == i + n + 1

\* i += size
NextChunk(i, n) == i + n

\* for (let i = 0; i < arr.length; i += size)
\*   result.push(arr.slice(i, Math.min(i + size, arr.length)))
RECURSIVE ChunksLoop(_, _, _, _)
ChunksLoop(s, n, i, acc) ==
    IF i < Len(s)
    THEN ChunksLoop(s, n, NextChunk(i, n),
                    Append(acc, Slice(s, i, Min(i + n, Len(s)))))
    ELSE acc

chunks(s, n) == ChunksLoop(s, n, 0, <<>>)

InitChunks ==
    /\ fn = "chunks"
    /\ pc = "start"
    /\ items \in Lists
    /\ size \in 1..MaxLen + 1
    /\ matrix = <<>> /\ choose = 0 /\ setLimit = SetLimit /\ NoCall
    /\ NoNumbers /\ NoPermutations /\ NoRanges /\ NoTests

\* the caller's call: const result = chunks(arr, size)
CallChunks ==
    /\ fn = "chunks" /\ pc = "start"
    /\ returned' = chunks(items, size)
    /\ pc' = "done"
    /\ UNCHANGED <<fn, matrix, items, size, choose, setLimit, thrown, twice,
                   notUtilVars>>

\* new Set(arr): a Set keeps its values in the order they were first added
RECURSIVE SetOf(_, _, _)
SetOf(s, i, set) ==
    IF i < Len(s)
    THEN SetOf(s, i + 1,
               IF s[i + 1] \in Range(set) THEN set ELSE Append(set, s[i + 1]))
    ELSE set

\* a Map that never finds a key
HasNever(seen, item) == FALSE

\* seen.has(item)
Has(seen, item) == item \in seen

\* for (let i = 0; i < arr.length; i++)
\*   if (!seen.has(item)) { seen.set(item, true); result.push(item); }
RECURSIVE UniqueLoop(_, _, _, _)
UniqueLoop(s, i, seen, acc) ==
    IF i < Len(s)
    THEN LET item == s[i + 1]
         IN  IF ~Has(seen, item)
             THEN UniqueLoop(s, i + 1, seen \cup {item}, Append(acc, item))
             ELSE UniqueLoop(s, i + 1, seen, acc)
    ELSE acc

\* limit stands for the 1000 of the code
unique(s, limit) ==
    IF Len(s) < limit THEN SetOf(s, 0, <<>>) ELSE UniqueLoop(s, 0, {}, <<>>)

InitUnique ==
    /\ fn = "unique"
    /\ pc = "start"
    /\ items \in Lists
    /\ setLimit \in {SetLimit, LoweredSetLimit}
    /\ matrix = <<>> /\ size = 0 /\ choose = 0 /\ NoCall
    /\ NoNumbers /\ NoPermutations /\ NoRanges /\ NoTests

\* the caller's call: const result = unique(arr)
CallUnique ==
    /\ fn = "unique" /\ pc = "start"
    /\ returned' = unique(items, setLimit)
    /\ pc' = "done"
    /\ UNCHANGED <<fn, matrix, items, size, choose, setLimit, thrown, twice,
                   notUtilVars>>

\* the four early returns, then
\* [...combinations(rest, r),
\*  ...combinations(rest, r - 1).map((combo) => [first, ...combo])]
RECURSIVE combinations(_, _)
combinations(s, k) ==
    IF k > Len(s) THEN <<>>
    ELSE IF k = 0 THEN << <<>> >>
    ELSE IF k = Len(s) THEN <<s>>
    ELSE IF k = 1 THEN [j \in 1..Len(s) |-> <<s[j]>>]
    ELSE LET first == s[1]
             rest == Tail(s)
             without == combinations(rest, k)
             with == combinations(rest, k - 1)
         IN  without \o [j \in 1..Len(with) |-> <<first>> \o with[j]]

InitCombinations ==
    /\ fn = "combinations"
    /\ pc = "start"
    /\ array \in Arrays
    /\ original = array /\ heapLimit = HeapLimit /\ perms = <<>>
    /\ choose \in 0..MaxLen + 1
    /\ matrix = <<>> /\ items = <<>> /\ size = 0 /\ setLimit = SetLimit
    /\ NoCall
    /\ NoNumbers /\ NoRanges /\ NoTests

\* the caller's call: const result = combinations(array, r)
CallCombinations ==
    /\ fn = "combinations" /\ pc = "start"
    /\ returned' = combinations(array, choose)
    /\ pc' = "done"
    /\ UNCHANGED <<fn, matrix, items, size, choose, setLimit, thrown, twice,
                   notUtilVars>>

(***************************************************************************)
(* 2024/day8/test.ts: runPart1Tests and runPart2Tests.  The test cases of  *)
(* a part are missing (the property is undefined) or a list; a case holds  *)
(* the expected answer and the answer the solution gives on its input.     *)
(***************************************************************************)
\* expected: 14, expected: 34
Answers == {14, 34}
Cases == [expected : Answers, actual : Answers]
PartTests ==
    [defined : {FALSE}, cases : {<<>>}]
        \cup [defined : {TRUE},
              cases : UNION {[1..n -> Cases] : n \in 0..MaxCases}]

\* !tests.part1?.length
NoTestsDefined(part) == ~part.defined \/ Len(part.cases) = 0

\* runTestPart(solution.part, tests.part, n): the solution is run on every
\* case, and the part passes when every answer equals the expected one
runTestPart(part) ==
    [invoked |-> Len(part.cases),
     passed |-> \A j \in 1..Len(part.cases) :
                    part.cases[j].actual = part.cases[j].expected]

InitTests ==
    /\ fn \in {"runPart1Tests", "runPart2Tests"}
    /\ pc = "start"
    /\ tests \in [part1 : PartTests, part2 : PartTests]
    /\ logged = <<>> /\ invoked = 0 /\ passed = FALSE
    /\ NoNumbers /\ NoPermutations /\ NoRanges /\ NoUtils

\* if (!tests.part?.length) { log("No tests defined"); return true; }
\* return await runTestPart(solution.part, tests.part, n);
\* test.ts neither imports nor declares log: evaluating the identifier
\* throws a ReferenceError before anything is written or returned
RunPartTests(name, part) ==
    /\ fn = name /\ pc = "start"
    /\ IF NoTestsDefined(part)
       THEN /\ thrown' = "ReferenceError"
            /\ pc' = "thrown"
            /\ UNCHANGED <<logged, invoked, passed>>
       ELSE /\ invoked' = runTestPart(part).invoked
            /\ passed' = runTestPart(part).passed
            /\ pc' = "done"
            /\ UNCHANGED <<logged, thrown>>
    /\ UNCHANGED <<fn, tests, matrix, items, size, choose, setLimit, returned,
                   twice, numVars, permVars, rangeVars>>

runPart1Tests == RunPartTests("runPart1Tests", tests.part1)
runPart2Tests == RunPartTests("runPart2Tests", tests.part2)

(***************************************************************************)
(* The specifications.                                                     *)
(***************************************************************************)
Init ==
    \/ InitGcd \/ InitLcm \/ InitPermutations \/ InitRanges
    \/ InitTranspose \/ InitWindows
    \/ InitChunks \/ InitUnique \/ InitCombinations
    \/ InitTests

\* the steps of gcd and lcm and of their caller
NumNext ==
    \/ CallGcd \/ CallGcdSwapped \/ CallerDone
    \/ GcdAbs \/ GcdCommon \/ GcdStripA \/ GcdWhileB \/ GcdStripB \/ GcdReturn
    \/ LcmCall \/ LcmReturn

Next ==
    \/ NumNext
    \/ CallGetPermutations
    \/ CallMergeRanges \/ CallMergeRangesAgain \/ WriteReturned
    \/ CallTranspose \/ CallTransposeAgain \/ CallWindows
    \/ CallChunks \/ CallUnique \/ CallCombinations
    \/ runPart1Tests \/ runPart2Tests

Spec == Init /\ [][Next]_vars

\* The program is one thread: a call of gcd or lcm that has a next step takes
\* it.
FairSpec == Spec /\ WF_vars(NumNext)

(***************************************************************************)
(* What the claims speak of.                                               *)
(***************************************************************************)
BothZero == x = Zero /\ y = Zero
Small(n) == n # Big
\* d divides |n|, for a positive integer d below 2^15
Divides(d, n) == ((MathAbs(n)[1] % d) * (Base % d) + MathAbs(n)[2]) % d = 0
CommonDivisors == {d \in 1..MaxVal : Divides(d, x) /\ Divides(d, y)}
\* the largest positive integer that divides |x| and |y|, which are not both
\* 0: a divisor of a nonzero number of the model other than 2^31 is at most
\* MaxVal, and 2^31 is the greatest divisor of 2^31 and of 0
GreatestCommonDivisor ==
    IF (Small(x) /\ x # Zero) \/ (Small(y) /\ y # Zero)
    THEN Num(CHOOSE d \in CommonDivisors : \A e \in CommonDivisors : e <= d)
    ELSE Big
FirstGcdReturned == fn = "gcd" /\ Len(rets) >= 1
BothGcdReturned == fn = "gcd" /\ pc = "done"
LcmReturned == fn = "lcm" /\ pc = "done"

\* C1: gcd is commutative: for all integers x and y, zero and negative ones
\* included, gcd(x, y) and gcd(y, x) both return, and return the same value.
C1_GcdCommutative ==
    (fn = "gcd") ~> (BothGcdReturned /\ rets[1] = rets[2])

\* C2: for x and y not both zero, gcd(x, y) returns the largest positive
\* integer that divides |x| and |y|.
C2_GcdGreatestDivisor ==
    (fn = "gcd" /\ ~BothZero)
        ~> (FirstGcdReturned /\ rets[1] = GreatestCommonDivisor)

\* C3: gcd(0, 0) terminates and returns the sentinel 0.
C3_GcdZeroZeroReturns ==
    (fn = "gcd" /\ BothZero) ~> (FirstGcdReturned /\ rets[1] = Zero)

\* C4: for nonzero x and y, lcm(x, y) * gcd(x, y) = |x * y|.
C4_LcmTimesGcd ==
    (fn = "lcm" /\ x # Zero /\ y # Zero)
        ~> (LcmReturned /\ IsInt(lcmRet) /\ Mul(lcmRet, ret) = MathAbs(Mul(x, y)))

\* C5: lcm(0, 0) ends in a defined outcome: it returns, and what it returns
\* is not NaN.
C5_LcmZeroZeroDefined ==
    (fn = "lcm" /\ BothZero) ~> (LcmReturned /\ lcmRet # NaN)

PermutationsReturned == fn = "getPermutations" /\ pc = "done"
RECURSIVE Factorial(_)
Factorial(n) == IF n = 0 THEN 1 ELSE n * Factorial(n - 1)
\* every ordering of the elements of s, which are distinct
AllOrderings(s) == {p \in [1..Len(s) -> Range(s)] : Range(p) = Range(s)}
\* the list holds every ordering of s exactly once
EveryOrderingOnce(list, s) ==
    /\ Len(list) = Factorial(Len(s))
    /\ Range(list) = AllOrderings(s)

\* C6: for an array of n distinct elements, n at most the threshold,
\* getPermutations returns n! arrays in which every ordering of the elements
\* appears exactly once; for [1, 2, 3] these are the six orderings listed.
C6_HeapEveryOrderingOnce ==
    (PermutationsReturned /\ Len(original) <= heapLimit)
        => /\ EveryOrderingOnce(perms, original)
           /\ original = <<1, 2, 3>>
                  => Range(perms) = {<<1, 2, 3>>, <<2, 1, 3>>, <<3, 1, 2>>,
                                     <<1, 3, 2>>, <<2, 3, 1>>, <<3, 2, 1>>}

\* [1, 2, 3] under the threshold of the source: the six orderings, in the
\* order Heap's algorithm emits them
C6_Witness ==
    /\ PermutationsReturned /\ heapLimit = HeapLimit
    /\ original = <<1, 2, 3>>
    /\ perms = <<<<1, 2, 3>>, <<2, 1, 3>>, <<3, 1, 2>>,
                 <<1, 3, 2>>, <<2, 3, 1>>, <<3, 2, 1>>>>

\* C7: for an array longer than the threshold getPermutations delegates to
\* getPermutationsLarger, and the list returned still holds every ordering of
\* the distinct elements exactly once.
C7_LargerEveryOrderingOnce ==
    (PermutationsReturned /\ Len(original) > heapLimit)
        => /\ perms = getPermutationsLarger(original, heapLimit)
           /\ EveryOrderingOnce(perms, original)

\* an array two longer than the threshold: the fallback calls getPermutations,
\* which falls back again
C7_Witness ==
    /\ PermutationsReturned
    /\ Len(original) > heapLimit + 1
    /\ Len(perms) = Factorial(Len(original))

\* C8: after getPermutations(array) returns, the caller's array holds the
\* same elements in the same order as before the call.
C8_ArrayUnchanged ==
    PermutationsReturned => array = original

\* the intervals an array holds, and the integers they cover
Values(heap, ids) == [j \in 1..Len(ids) |-> heap[ids[j]]]
Cover(list) == UNION {list[j][1]..list[j][2] : j \in 1..Len(list)}
MergeReturned == fn = "mergeRanges" /\ pc \in {"merged", "done"}
Input == Values(heaps[1], ranges)
Output == Values(heaps[2], merged)
\* closed intervals: start <= end
WellFormed(list) == \A j \in 1..Len(list) : list[j][1] <= list[j][2]

\* C9: for intervals with start <= end, mergeRanges returns intervals sorted
\* ascending by start, each starting more than one past the end of the one
\* before (neither overlapping nor adjacent), that cover the same integers as
\* the input.
C9_MergedSortedDisjointSameCover ==
    (MergeReturned /\ WellFormed(Input))
        => /\ WellFormed(Output)
           /\ \A j \in 1..(Len(Output) - 1) :
                 /\ Output[j][1] < Output[j + 1][1]
                 /\ Output[j + 1][1] > Output[j][2] + 1
           /\ Cover(Output) = Cover(Input)

\* unsorted input whose first two intervals in order are adjacent
C9_Witness ==
    /\ MergeReturned
    /\ Input = <<<<3, 3>>, <<1, 1>>, <<0, 0>>>>
    /\ Output = <<<<0, 1>>, <<3, 3>>>>

\* C10: mergeRanges(mergeRanges(x)) equals mergeRanges(x) as a sequence of
\* intervals, for every input x, pairs with start > end included.
C10_MergeIdempotent ==
    (fn = "mergeRanges" /\ pc = "done")
        => Values(heaps[3], again) = Output

\* a first call that merged intervals and returned more than one
C10_Witness ==
    /\ fn = "mergeRanges" /\ pc = "done"
    /\ Len(merged) = 2 /\ Len(ranges) = 3
    /\ Values(heaps[3], again) = Output

\* C11: after mergeRanges(ranges) returns, every [start, end] pair of the
\* caller's array holds the values it held before the call, and a later
\* write to a returned interval does not change them either.
C11_InputPairsUnchanged ==
    (fn = "mergeRanges" /\ pc # "start")
        => Values(heaps[Len(heaps)], ranges) = Input

\* C12: transposing a rectangular matrix twice gives the matrix back, also
\* when it has no rows or its rows have no columns.
C12_TransposeInvolution ==
    (fn = "transpose" /\ pc \in {"done", "thrown"})
        => thrown = "" /\ twice = matrix

\* C13: transpose of a matrix without rows returns an empty array and
\* windows(array, size) with size > array.length returns an empty array;
\* neither throws.
C13_OutOfDomainEmpty ==
    /\ (fn = "transpose" /\ pc # "start" /\ Len(matrix) = 0)
           => thrown = "" /\ returned = <<>>
    /\ (fn = "windows" /\ pc = "done" /\ size > Len(array))
           => thrown = "" /\ returned = <<>>

\* the elements of the arrays of a list, in order
RECURSIVE Concat(_)
Concat(list) == IF list = <<>> THEN <<>> ELSE Head(list) \o Concat(Tail(list))

\* C14: for a positive size, the chunks of chunks(arr, size) concatenated in
\* order are arr; every chunk but the last has length size and none is
\* empty.
C14_ChunksPartition ==
    (fn = "chunks" /\ pc = "done")
        => /\ Concat(returned) = items
           /\ \A j \in 1..Len(returned) - 1 : Len(returned[j]) = size
           /\ \A j \in 1..Len(returned) : Len(returned[j]) > 0
\* a call that returned several chunks, the last one short
C14_Witness ==
    /\ fn = "chunks" /\ pc = "done"
    /\ Len(returned) >= 2
    /\ Len(returned[Len(returned)]) < size

\* C15: on the Set path and on the Map path, unique(arr) is no longer than
\* arr, holds only elements of arr and holds no element twice.
C15_UniqueNoDuplicates ==
    (fn = "unique" /\ pc = "done")
        => /\ Len(returned) <= Len(items)
           /\ Range(returned) \subseteq Range(items)
           /\ Distinct(returned)
\* a call on the Map path that dropped a repeated element
C15_Witness ==
    /\ fn = "unique" /\ pc = "done"
    /\ Len(items) >= setLimit
    /\ Len(returned) < Len(items)

RECURSIVE Binomial(_, _)
Binomial(n, k) ==
    IF k = 0 THEN 1
    ELSE IF k > n THEN 0
    ELSE Binomial(n - 1, k - 1) + Binomial(n - 1, k)
\* the selections of k elements of s, each in the order of s
Selections(s, k) ==
    {[j \in 1..k |-> s[f[j]]] :
        f \in {g \in [1..k -> 1..Len(s)] :
                  \A j \in 1..k - 1 : g[j] < g[j + 1]}}

\* C17: for distinct elements and 0 <= r <= n, combinations(array, r) holds
\* every r-element selection exactly once, each in the order of the array,
\* and combinations([1, 2, 3], 2) is [[1, 2], [1, 3], [2, 3]] as documented.
C17_CombinationsAsDocumented ==
    (fn = "combinations" /\ pc = "done" /\ choose <= Len(array))
        => /\ Len(returned) = Binomial(Len(array), choose)
           /\ Range(returned) = Selections(array, choose)
           /\ (array = <<1, 2, 3>> /\ choose = 2)
                  => returned = << <<1, 2>>, <<1, 3>>, <<2, 3>> >>

\* the list of the part that the function under call runs
PartRun == IF fn = "runPart1Tests" THEN tests.part1 ELSE tests.part2

\* C16: when the day defines no test cases for the part (the list is missing
\* or empty), running the part's tests reports it as skipped and returns
\* true, without invoking the solution and without throwing.
C16_NoTestsSkipped ==
    (/\ fn \in {"runPart1Tests", "runPart2Tests"} /\ pc # "start"
     /\ NoTestsDefined(PartRun))
        => /\ pc = "done" /\ thrown = ""
           /\ passed = TRUE /\ invoked = 0
           /\ Len(logged) = 1

====
